---- MODULE Spec2Model ----
(***************************************************************************)
(* Bluetti BT integration: the polling coordinator (coordinator.py), the   *)
(* setup and options flows (config_flow.py) and the resolution of the      *)
(* full device configuration (types/FullDeviceConfig.py).                  *)
(*                                                                         *)
(* The specifications share the variables:                               *)
(*   SpecPoll     the coordinators of one host, their ticks and the locks  *)
(*   FairSpecPoll SpecPoll with the event loop's fairness                  *)
(*   SpecFlow     the setup flows, the discovery feed and the entry store  *)
(*   SpecOptions  the options flow next to one setup flow                  *)
(*   SpecResolve  FullDeviceConfig.from_dict on raw records                *)
(***************************************************************************)
EXTENDS Integers, Sequences, FiniteSets, TLC

(***************************************************************************)
(* Values shared by the three parts.                                       *)
(***************************************************************************)

\* Python's None.
None == "None"

\* config_flow.py:22-33. The first option is the "no manual choice" value.
AutoDetect == "Auto Detect"

DEVICE_OPTIONS ==
    { AutoDetect, "AC2P", "AC2A", "EB3A", "AC200M", "AC300", "AC500",
      "EP500", "EP600", "EB70" }

\* const.py:7, the key under which a manual device type is stored.
CONF_DEVICE_TYPE == "device_type"

\* bluetti_bt_lib.build_device: a device object for a supported model name,
\* None for anything else (None itself, "Auto Detect", an unknown name).
build_device(dev_type) ==
    IF dev_type \in DEVICE_OPTIONS \ { AutoDetect } THEN dev_type ELSE None

(***************************************************************************)
(* Part 1: PollingCoordinator                                              *)
(***************************************************************************)

\* Number of coordinators (configured devices) of the host.
NumCoords == 2

Coords == 1 .. NumCoords

\* The physical adapters, each named by the number of its asyncio.Lock
\* (const.py:10, DATA_LOCK).
Adapters == { 1, 2 }

\* A lock private to one coordinator (never created by the code as written).
PrivateLock(c) == 10 + c

Locks == Adapters \cup { PrivateLock(c) : c \in Coords }

\* Device types a FullDeviceConfig handed to the constructor may carry.
ConfigTypes == { "AC300", AutoDetect, None }

\* What one reader.read() can produce: a telemetry record, None (the read
\* timed out inside the reader), or a raised transport error.
Telemetry == "D1"
ReadOutcomes == { Telemetry, None, "EXC" }

VARIABLES
    \* Part 1, per coordinator
    cstate,               \* coordinator's position: Absent, NotReady, Scheduled,
                          \* WaitLock, InRead, Removed
    config,               \* [dev_type, lock]: what the constructor was given
    reader,               \* [built, lock]: the DeviceReader built at line 47
    last_update_success,  \* the base class's status flag (FALSE: stale)
    data,                 \* the base class's data: the last tick's result
    lastTick,             \* how the last tick went (history)
    shutdown,             \* the host asked for the coordinator's removal
    \* Part 1, per lock
    holder,               \* the set of coordinators inside it
    waiters,              \* FIFO of coordinators waiting for it
    \* Part 2
    feed,                 \* bluetooth.async_discovered_service_info:
                          \* address -> record
    flows,                \* per setup flow: [state, discovery_info, choices]
    entries,              \* the host's config entries: [unique_id, data, options]
    optflow,              \* the options flow: [state, entry]
    last,                 \* the last flow step and its result (history)
    \* Part 3
    raw,                  \* the raw record handed to FullDeviceConfig.from_dict
    full,                 \* its result: << >> for None, else << config >>
    rstate                \* idle, loaded, resolved

pollVars ==
    << cstate, config, reader, last_update_success, data, lastTick, shutdown,
       holder, waiters >>

flowVars == << feed, flows, entries, optflow, last >>

resolveVars == << raw, full, rstate >>

notPoll == << flowVars, resolveVars >>

notFlow == << pollVars, resolveVars >>

notResolve == << pollVars, flowVars >>

NoConfig == [dev_type |-> None, lock |-> 0]

NoReader == [built |-> FALSE, lock |-> 0]

PollInit ==
    /\ cstate = [c \in Coords |-> "Absent"]
    /\ config = [c \in Coords |-> NoConfig]
    /\ reader = [c \in Coords |-> NoReader]
    /\ last_update_success = [c \in Coords |-> TRUE]
    /\ data = [c \in Coords |-> None]
    /\ lastTick = [c \in Coords |-> "none"]
    /\ shutdown = [c \in Coords |-> FALSE]
    /\ holder = [l \in Locks |-> { }]
    /\ waiters = [l \in Locks |-> << >>]

\* PollingCoordinator.__init__ (coordinator.py:20-56) as a function of its
\* arguments: the reader it leaves on the object and whether it raised.
\* super().__init__ (27-34) only stores the update interval; build_device
\* (40) decides; the reader (47-56) is built after the check and is handed
\* the caller's lock.
InitReaderFirst(c, cfg) ==
    [ reader |-> [built |-> TRUE, lock |-> cfg.lock],
      raised |-> build_device(cfg.dev_type) = None ]

InitPrivateLock(c, cfg) ==
    IF build_device(cfg.dev_type) = None
    THEN [reader |-> NoReader, raised |-> TRUE]
    ELSE [reader |-> [built |-> TRUE, lock |-> PrivateLock(c)], raised |-> FALSE]

CoordinatorInit(c, cfg) ==
    IF build_device(cfg.dev_type) = None
    THEN [reader |-> NoReader, raised |-> TRUE]
    ELSE [reader |-> [built |-> TRUE, lock |-> cfg.lock], raised |-> FALSE]

\* The entry setup constructs the coordinator from the resolved config and
\* the adapter's lock; ConfigEntryNotReady leaves no coordinator and no
\* timer, a successful construction arms the timer (Idle -> Scheduled).
Construct(c) ==
    /\ cstate[c] = "Absent"
    /\ \E t \in ConfigTypes, l \in Adapters :
          LET cfg == [dev_type |-> t, lock |-> l]
              r == CoordinatorInit(c, cfg)
          IN /\ config' = [config EXCEPT ![c] = cfg]
             /\ reader' = [reader EXCEPT ![c] = r.reader]
             /\ cstate' = [cstate EXCEPT
                              ![c] = IF r.raised THEN "NotReady" ELSE "Scheduled"]
    /\ UNCHANGED << last_update_success, data, lastTick, shutdown, holder,
                    waiters, notPoll >>

\* asyncio.Lock.acquire as reader.read() enters "async with lock": taken at
\* once when free with nobody queued, else the caller queues.
LockRequest(c, l) ==
    IF holder[l] = { } /\ waiters[l] = << >>
    THEN /\ holder' = [holder EXCEPT ![l] = @ \cup { c }]
         /\ waiters' = waiters
         /\ cstate' = [cstate EXCEPT ![c] = "InRead"]
    ELSE /\ holder' = holder
         /\ waiters' = [waiters EXCEPT ![l] = Append(@, c)]
         /\ cstate' = [cstate EXCEPT ![c] = "WaitLock"]

\* The end of the base class's refresh (DataUpdateCoordinator._async_refresh)
\* once _async_update_data has returned `out` (or raised, "EXC") and left
\* the flag at `flag`: an exception marks the update failed and keeps the
\* old data; a normal return stores the value and, if the flag is down,
\* raises it again ("data recovered"); in every case the next tick is
\* scheduled, unless the coordinator was shut down meanwhile.
RefreshEnd(c, out, flag) ==
    /\ IF out = "EXC"
       THEN /\ last_update_success' = [last_update_success EXCEPT ![c] = FALSE]
            /\ data' = data
       ELSE /\ last_update_success' =
                  [last_update_success EXCEPT ![c] = IF ~flag THEN TRUE ELSE flag]
            /\ data' = [data EXCEPT ![c] = out]
    /\ cstate' = [cstate EXCEPT
                     ![c] = IF shutdown[c] THEN "Removed" ELSE "Scheduled"]

\* _async_update_data (coordinator.py:58-76) with `p` the answer of
\* bluetooth.async_address_present, up to its first suspension: device not
\* present -> mark the update failed and return None (66-74), which ends
\* the refresh at once; else call reader.read() (76), which first asks for
\* the reader's lock.
UpdateHoldsLock(c, p) ==
    IF ~p
    THEN /\ holder' = [holder EXCEPT ![reader[c].lock] = @ \cup { c }]
         /\ RefreshEnd(c, None, FALSE)
         /\ lastTick' = [lastTick EXCEPT ![c] = "unreachable"]
         /\ UNCHANGED waiters
    ELSE /\ LockRequest(c, reader[c].lock)
         /\ lastTick' = [lastTick EXCEPT ![c] = "reading"]
         /\ UNCHANGED << last_update_success, data >>

UpdateBlocks(c, p) ==
    IF ~p
    THEN /\ cstate' = [cstate EXCEPT ![c] = "WaitLock"]
         /\ lastTick' = [lastTick EXCEPT ![c] = "unreachable"]
         /\ UNCHANGED << last_update_success, data, holder, waiters >>
    ELSE /\ LockRequest(c, reader[c].lock)
         /\ lastTick' = [lastTick EXCEPT ![c] = "reading"]
         /\ UNCHANGED << last_update_success, data >>

UpdateQueuesFirst(c, p) ==
    /\ LockRequest(c, reader[c].lock)
    /\ lastTick' = [lastTick EXCEPT ![c] = IF p THEN "reading" ELSE "unreachable"]
    /\ UNCHANGED << last_update_success, data >>

UpdateData(c, p) ==
    IF ~p
    THEN /\ RefreshEnd(c, None, FALSE)
         /\ lastTick' = [lastTick EXCEPT ![c] = "unreachable"]
         /\ UNCHANGED << holder, waiters >>
    ELSE /\ LockRequest(c, reader[c].lock)
         /\ lastTick' = [lastTick EXCEPT ![c] = "reading"]
         /\ UNCHANGED << last_update_success, data >>

\* The host's timer fires: the base class cancels the timer and awaits
\* _async_update_data.
Tick(c) ==
    /\ cstate[c] = "Scheduled"
    /\ \E p \in BOOLEAN : UpdateData(c, p)
    /\ UNCHANGED << config, reader, shutdown, notPoll >>

\* A queued reader is woken in FIFO order once the lock is free.
LockAcquire(c) ==
    /\ cstate[c] = "WaitLock"
    /\ LET l == reader[c].lock
       IN /\ holder[l] = { }
          /\ waiters[l] # << >>
          /\ Head(waiters[l]) = c
          /\ holder' = [holder EXCEPT ![l] = @ \cup { c }]
          /\ waiters' = [waiters EXCEPT ![l] = Tail(@)]
    /\ cstate' = [cstate EXCEPT ![c] = "InRead"]
    /\ UNCHANGED << config, reader, last_update_success, data, lastTick,
                    shutdown, notPoll >>

\* reader.read() leaves "async with lock": the lock is released on every
\* exit of the read (result, internal timeout, raised error).
ReaderRelease(c) ==
    holder' = [holder EXCEPT ![reader[c].lock] = @ \ { c }]

\* What _async_update_data hands on when reader.read() produced `out`:
\* the reader's output unchanged, an exception let through
\* (coordinator.py:76).
UpdateResult(out) == out

\* reader.read() ends (bounded by polling_timeout), _async_update_data
\* returns and the refresh ends.
ReadFinish(c) ==
    /\ cstate[c] = "InRead"
    /\ ReaderRelease(c)
    /\ \E out \in ReadOutcomes :
          /\ RefreshEnd(c, UpdateResult(out), last_update_success[c])
          /\ lastTick' = [lastTick EXCEPT ![c] = out]
    /\ UNCHANGED << config, reader, shutdown, waiters, notPoll >>

\* The host removes the device entry: a scheduled coordinator loses its
\* timer; a tick in progress runs to its end and is not rescheduled.
Remove(c) ==
    /\ cstate[c] \in { "Scheduled", "WaitLock", "InRead" }
    /\ ~shutdown[c]
    /\ shutdown' = [shutdown EXCEPT ![c] = TRUE]
    /\ cstate' = [cstate EXCEPT
                     ![c] = IF @ = "Scheduled" THEN "Removed" ELSE @]
    /\ UNCHANGED << config, reader, last_update_success, data, lastTick,
                    holder, waiters, notPoll >>

PollStep(c) ==
    \/ Construct(c)
    \/ Tick(c)
    \/ LockAcquire(c)
    \/ ReadFinish(c)
    \/ Remove(c)

PollNext == \E c \in Coords : PollStep(c)

(***************************************************************************)
(* Part 2: the setup flow (BluettiConfigFlow) and the entry store          *)
(***************************************************************************)

\* Number of setup flows that can be in progress at once; a slot is used
\* again by a new flow once its flow has ended.
NumFlows == 1

Flows == 1 .. NumFlows

\* The devices in range, by Bluetooth address.
Addrs == { "A1", "A2" }

\* Python's True and False where a value may also be None.
True == "True"
False == "False"

\* A dict with no keys.
EmptyDict == [k \in { } |-> None]

\* dict.get(key, default)
Get(d, key, default) == IF key \in DOMAIN d THEN d[key] ELSE default

\* {**a, **b}: b's keys win.
Merge(a, b) == b @@ a

\* Names are sequences of characters.  What each device advertises:
AdvName(a) ==
    IF a = "A1"
    THEN << "A", "C", "3", "0", "0" >>
    ELSE << "B", "l", "u", "e", "t", "t", "i", "-",
            "A", "C", "2", "0", "0", "M", "_", "0", "1" >>

\* bluetti_bt_lib.recognize_device(address) when it succeeds: the model name,
\* the encryption flag and the full name read from the device.
Recognized(a) ==
    IF a = "A1"
    THEN [ name |-> "AC300", encrypted |-> False,
           full_name |-> << "A", "C", "3", "0", "0", "-", "7" >> ]
    ELSE [ name |-> "AC200M", encrypted |-> True,
           full_name |-> << "A", "C", "2", "0", "0", "M", "x", "9" >> ]

\* The raw manufacturer data of an advertisement: company id -> bytes.
RawManufacturerData == [company_id |-> "bytes"]

\* ManufacturerData(dev_type, use_encryption).as_dict and
\* ManufacturerData.from_dict: the pair round-trips through the dict; a dict
\* without the two keys (a raw advertisement's) gives no type and no flag.
ManufacturerDataAsDict(dev_type, use_encryption) ==
    [dev_type |-> dev_type, use_encryption |-> use_encryption]

ManufacturerDataFromDict(d) ==
    [ dev_type |-> Get(d, "dev_type", None),
      use_encryption |-> Get(d, "use_encryption", None) ]

\* A fresh advertisement of device a, as the host's discovery feed holds it.
Advertisement(a) ==
    [address |-> a, name |-> AdvName(a), manufacturer_data |-> RawManufacturerData]

\* re.sub("[^A-Z0-9]+", "", name), config_flow.py:96
UpperOrDigit ==
    { "A", "B", "C", "D", "E", "F", "G", "H", "I", "J", "K", "L", "M", "N",
      "O", "P", "Q", "R", "S", "T", "U", "V", "W", "X", "Y", "Z",
      "0", "1", "2", "3", "4", "5", "6", "7", "8", "9" }

IsUpperOrDigit(ch) == ch \in UpperOrDigit

\* The pattern matched without regard to case, "[^A-Za-z0-9]+".
LowerCase ==
    { "a", "b", "c", "d", "e", "f", "g", "h", "i", "j", "k", "l", "m", "n",
      "o", "p", "q", "r", "s", "t", "u", "v", "w", "x", "y", "z" }

IsLetterOrDigit(ch) == ch \in UpperOrDigit \cup LowerCase

SanitizeAnyCase(name) == SelectSeq(name, IsLetterOrDigit)

Sanitize(name) == SelectSeq(name, IsUpperOrDigit)

\* name.startswith(("AC", "EB", "EP", "BLUETTI")), config_flow.py:131
NamePrefixes ==
    { << "A", "C" >>, << "E", "B" >>, << "E", "P" >>,
      << "B", "L", "U", "E", "T", "T", "I" >> }

StartsWith(name, prefix) ==
    Len(name) >= Len(prefix) /\ SubSeq(name, 1, Len(prefix)) = prefix

LikelyBluetti(name) == \E prefix \in NamePrefixes : StartsWith(name, prefix)

\* The key InitialDeviceConfig.as_dict stores dev_type under (the class's
\* own; FullDeviceConfig.from_dict looks for CONF_DEVICE_TYPE besides it).
InitTypeKey == "type"

\* InitialDeviceConfig(address, name, dev_type, use_encryption).as_dict
InitialAsDict(address, name, dev_type, use_encryption) ==
    (InitTypeKey :> dev_type) @@
    [address |-> address, name |-> name, use_encryption |-> use_encryption]

\* OptionalDeviceConfig.from_dict: the three settings, a default for each
\* key the dict lacks; as_dict is the record itself.
OptionalDefaults ==
    [polling_interval |-> 20, polling_timeout |-> 45, max_retries |-> 5]

OptionalFromDict(d) ==
    [ polling_interval |-> Get(d, "polling_interval", OptionalDefaults.polling_interval),
      polling_timeout |-> Get(d, "polling_timeout", OptionalDefaults.polling_timeout),
      max_retries |-> Get(d, "max_retries", OptionalDefaults.max_retries) ]

\* What the user may pick in the type dropdown (a part of DEVICE_OPTIONS).
ManualChoices == { AutoDetect, "EB3A" }

\* The user_input of a setup form: the address, and the type unless the
\* form left it out.
UserInputs(choices) ==
    { [address |-> a] : a \in choices } \cup
    { [address |-> a, device_type |-> m] : a \in choices, m \in ManualChoices }

\* self._discovery_info is None (<< >>) or one record (<< record >>).
IdleFlow == [state |-> "idle", discovery_info |-> << >>, choices |-> { }]

IdleOptions == [state |-> "idle", entry |-> 0]

NoLast == [op |-> "none"]

FlowInit ==
    /\ feed = [a \in { } |-> None]
    /\ flows = [f \in Flows |-> IdleFlow]
    /\ entries = << >>
    /\ optflow = IdleOptions
    /\ last = NoLast

\* The discovery feed changes under the flows: a device advertises (again),
\* which puts a fresh record in the feed, or drops out of it.
Advertise(a) ==
    /\ feed' = (a :> Advertisement(a)) @@ feed
    /\ last' = NoLast
    /\ UNCHANGED << flows, entries, optflow, notFlow >>

Vanish(a) ==
    /\ a \in DOMAIN feed
    /\ feed' = [x \in DOMAIN feed \ { a } |-> feed[x]]
    /\ last' = NoLast
    /\ UNCHANGED << flows, entries, optflow, notFlow >>

\* The user deletes a config entry.
RemoveEntry(i) ==
    /\ i \in 1 .. Len(entries)
    /\ entries' = SubSeq(entries, 1, i - 1) \o SubSeq(entries, i + 1, Len(entries))
    /\ optflow' = IdleOptions
    /\ last' = NoLast
    /\ UNCHANGED << feed, flows, notFlow >>

\* self._abort_if_unique_id_configured() after async_set_unique_id(address)
UniqueIdConfigured(address) ==
    \E i \in 1 .. Len(entries) : entries[i].unique_id = address

\* async_step_user without input (config_flow.py:124-146): scan the feed `fd`
\* for likely devices; none -> abort, else show the form with the choices.
ScanChoices(fd) == { a \in DOMAIN fd : LikelyBluetti(fd[a].name) }

UserScan(f, fd, info, op) ==
    IF ScanChoices(fd) = { }
    THEN /\ flows' = [flows EXCEPT ![f] = IdleFlow]
         /\ last' = [op |-> op, result |-> "abort", reason |-> "no_devices_found",
                     discovery_info |-> info]
    ELSE /\ flows' = [flows EXCEPT ![f] =
                         [ state |-> "form", discovery_info |-> info,
                           choices |-> ScanChoices(fd) ]]
         /\ last' = [op |-> op, result |-> "form", reason |-> None,
                     discovery_info |-> info]

\* async_step_user(None) as the first step of a flow the user started.
StepUserScan(f) ==
    /\ flows[f].state = "idle"
    /\ UserScan(f, feed, << >>, "user")
    /\ UNCHANGED << feed, entries, optflow, notFlow >>

\* async_step_bluetooth (config_flow.py:43-71) for a discovered device a.
\* `recognized` is recognize_device's answer (<< >> for None); `in_feed`
\* tells whether the record handed to the flow is still the feed's own
\* object, so that the assignments at 65-68 show in the feed.
StepBluetooth(f, a, recognized, in_feed) ==
    /\ flows[f].state = "idle"
    /\ in_feed => a \in DOMAIN feed
    /\ IF UniqueIdConfigured(a)
       THEN /\ flows' = [flows EXCEPT ![f] = IdleFlow]
            /\ last' = [op |-> "bluetooth", result |-> "abort",
                        reason |-> "already_configured", discovery_info |-> << >>]
            /\ UNCHANGED feed
       ELSE IF recognized = << >>
       THEN /\ flows' = [flows EXCEPT ![f] = IdleFlow]
            /\ last' = [op |-> "bluetooth", result |-> "abort",
                        reason |-> "Device type not supported",
                        discovery_info |-> << >>]
            /\ UNCHANGED feed
       ELSE LET r == recognized[1]
                info == [ address |-> a, name |-> r.full_name,
                          manufacturer_data |->
                              ManufacturerDataAsDict(r.name, r.encrypted) ]
                fd == IF in_feed THEN (a :> info) @@ feed ELSE feed
            IN /\ feed' = fd
               /\ UserScan(f, fd, << info >>, "bluetooth")
    /\ UNCHANGED << entries, optflow, notFlow >>

\* The device-type override of async_step_user (config_flow.py:103-105).
DevTypeIgnoresManual(md_type, manual_type) == md_type

ResolveDevType(md_type, manual_type) ==
    IF manual_type # AutoDetect THEN manual_type ELSE md_type

\* The duplicate check of async_step_user (config_flow.py:93-94).
SubmitNeverAborts(address) == FALSE

SubmitAbortsIfConfigured(address) == UniqueIdConfigured(address)

\* next(... if service_info.address == address, self._discovery_info),
\* config_flow.py:84-88: the feed's record for the address, else whatever
\* the flow remembers.
FindInCache(address, remembered) ==
    IF address \in DOMAIN feed THEN << feed[address] >> ELSE << Advertisement(address) >>

FindDiscoveryInfo(address, remembered) ==
    IF address \in DOMAIN feed THEN << feed[address] >> ELSE remembered

\* async_step_user with the form's input (config_flow.py:79-122).
StepUserSubmit(f, user_input) ==
    /\ flows[f].state = "form"
    /\ LET address == user_input.address
           manual_type == Get(user_input, CONF_DEVICE_TYPE, AutoDetect)
           found == FindDiscoveryInfo(address, flows[f].discovery_info)
           done(result, reason) ==
               [ op |-> "submit", result |-> result, reason |-> reason,
                 input |-> user_input, found |-> found,
                 discovery_info |-> flows[f].discovery_info,
                 before |-> entries ]
       IN IF found = << >>
          THEN /\ last' = done("abort", "device_not_found")
               /\ UNCHANGED entries
          ELSE IF SubmitAbortsIfConfigured(address)
          THEN /\ last' = done("abort", "already_configured")
               /\ UNCHANGED entries
          ELSE LET discovery_info == found[1]
                   name == Sanitize(discovery_info.name)
                   md == ManufacturerDataFromDict(discovery_info.manufacturer_data)
                   dev_type == ResolveDevType(md.dev_type, manual_type)
                   entry_data ==
                       Merge(InitialAsDict(address, name, dev_type, md.use_encryption),
                             OptionalFromDict(EmptyDict))
               IN /\ entries' = Append(entries,
                                       [ unique_id |-> address, data |-> entry_data,
                                         options |-> EmptyDict ])
                  /\ last' = done("create_entry", None)
    /\ flows' = [flows EXCEPT ![f] = IdleFlow]
    /\ UNCHANGED << feed, optflow, notFlow >>

FlowStep(f) ==
    \/ StepUserScan(f)
    \/ \E a \in Addrs, in_feed \in BOOLEAN :
          \/ StepBluetooth(f, a, << >>, in_feed)
          \/ StepBluetooth(f, a, << Recognized(a) >>, in_feed)
    \/ \E user_input \in UserInputs(flows[f].choices) : StepUserSubmit(f, user_input)

FlowEnv ==
    \/ \E a \in Addrs : Advertise(a) \/ Vanish(a)
    \/ \E i \in 1 .. Len(entries) : RemoveEntry(i)

FlowNext == FlowEnv \/ \E f \in Flows : FlowStep(f)

(***************************************************************************)
(* Part 2b: the options flow (OptionsFlowHandler)                          *)
(***************************************************************************)

\* OptionalDeviceConfig.validate: None, or the reason naming the first
\* setting out of range.
Validate(cfg) ==
    IF cfg.polling_interval <= 0 THEN "invalid_polling_interval"
    ELSE IF cfg.polling_timeout <= 0 THEN "invalid_polling_timeout"
    ELSE IF cfg.max_retries < 0 THEN "invalid_max_retries"
    ELSE None

\* What the options form can submit: the three settings (one edit that is
\* valid, and one out of range for each setting) and the type dropdown,
\* which the schema always fills in.
OptionSettings ==
    { [polling_interval |-> 30, polling_timeout |-> 60, max_retries |-> 0],
      [polling_interval |-> 0, polling_timeout |-> 60, max_retries |-> 0],
      [polling_interval |-> 30, polling_timeout |-> -1, max_retries |-> 0],
      [polling_interval |-> 30, polling_timeout |-> 60, max_retries |-> -1] }

OptionInputs ==
    { ((CONF_DEVICE_TYPE :> m) @@ st) : st \in OptionSettings, m \in ManualChoices }

\* async_step_init without input (config_flow.py:192-211): show the form.
\* current_type: options, then data, then "Auto Detect".
CurrentType(entry) ==
    Get(entry.options, CONF_DEVICE_TYPE,
        Get(entry.data, CONF_DEVICE_TYPE, AutoDetect))

OptionsForm(i) ==
    /\ optflow.state = "idle"
    /\ i \in 1 .. Len(entries)
    /\ optflow' = [state |-> "form", entry |-> i]
    /\ last' = [ op |-> "options", result |-> "form", reason |-> None,
                 defaults |-> OptionalFromDict(entries[i].data),
                 current_type |-> CurrentType(entries[i]) ]
    /\ UNCHANGED << feed, flows, entries, notFlow >>

\* async_step_init with input (config_flow.py:161-190) as a function of the
\* entry and the input: the result, and the entry as the step leaves it.
\* Validation comes first; only a valid input reaches async_update_entry
\* (175-181) and the options record (184-190).
OptionsUpdateThenValidate(entry, user_input) ==
    LET manual_type == Get(user_input, CONF_DEVICE_TYPE, None)
        cfg == OptionalFromDict(user_input)
        reason == Validate(cfg)
        updated == [entry EXCEPT !.data = Merge(entry.data, cfg)]
    IN IF reason # None
       THEN [result |-> "abort", reason |-> reason, entry |-> updated]
       ELSE [ result |-> "create_entry", reason |-> None,
              entry |-> [updated EXCEPT
                            !.options = (CONF_DEVICE_TYPE :> manual_type) @@ cfg] ]

OptionsTypeIntoData(entry, user_input) ==
    LET manual_type == Get(user_input, CONF_DEVICE_TYPE, None)
        cfg == OptionalFromDict(user_input)
        reason == Validate(cfg)
    IN IF reason # None
       THEN [result |-> "abort", reason |-> reason, entry |-> entry]
       ELSE [ result |-> "create_entry", reason |-> None,
              entry |-> [entry EXCEPT
                            !.data = Merge(entry.data,
                                           (CONF_DEVICE_TYPE :> manual_type) @@ cfg),
                            !.options = (CONF_DEVICE_TYPE :> manual_type) @@ cfg] ]

OptionsApply(entry, user_input) ==
    LET manual_type == Get(user_input, CONF_DEVICE_TYPE, None)
        cfg == OptionalFromDict(user_input)
        reason == Validate(cfg)
    IN IF reason # None
       THEN [result |-> "abort", reason |-> reason, entry |-> entry]
       ELSE [ result |-> "create_entry", reason |-> None,
              entry |-> [entry EXCEPT
                            !.data = Merge(entry.data, cfg),
                            !.options = (CONF_DEVICE_TYPE :> manual_type) @@ cfg] ]

OptionsSubmit(user_input) ==
    /\ optflow.state = "form"
    /\ LET i == optflow.entry
           r == OptionsApply(entries[i], user_input)
       IN /\ entries' = [entries EXCEPT ![i] = r.entry]
          /\ last' = [ op |-> "options_submit", result |-> r.result,
                       reason |-> r.reason, input |-> user_input,
                       entry |-> i, before |-> entries ]
    /\ optflow' = IdleOptions
    /\ UNCHANGED << feed, flows, notFlow >>

OptionsStep ==
    \/ \E i \in 1 .. Len(entries) : OptionsForm(i)
    \/ \E user_input \in OptionInputs : OptionsSubmit(user_input)

\* The options steps read and write only the entry store, and one setup
\* flow at a time produces every entry the store can hold: the options
\* flow is explored next to the first setup flow.
OptionsNext == FlowEnv \/ OptionsStep \/ FlowStep(1)

\* The raw record the entry setup resolves the coordinator's configuration
\* from: the entry's data with the options record laid over it.
StoredRecord(entry) == Merge(entry.data, entry.options)

(***************************************************************************)
(* Part 3: FullDeviceConfig.from_dict                                      *)
(***************************************************************************)

\* The raw records tried: each key present or not, a few values each.
Opt(key, values) == { EmptyDict } \cup { (key :> v) : v \in values }

RawRecords ==
    { a @@ n @@ t @@ e @@ d @@ i :
        a \in Opt("address", { "A1" }),
        n \in Opt("name", { << "A", "C", "3", "0", "0" >> }),
        t \in Opt(InitTypeKey, { "AC300", None }),
        e \in Opt("use_encryption", { False }),
        d \in Opt(CONF_DEVICE_TYPE, { "EB3A", AutoDetect }),
        i \in Opt("polling_interval", { 30 }) }

\* InitialDeviceConfig.from_dict: the identity fields of the record, or None
\* (<< >>) when one of them is missing.
InitialFromDict(r) ==
    IF { "address", "name", InitTypeKey, "use_encryption" } \subseteq DOMAIN r
    THEN << [ address |-> r.address, name |-> r.name, dev_type |-> r[InitTypeKey],
              use_encryption |-> r.use_encryption ] >>
    ELSE << >>

\* FullDeviceConfig.__init__ (FullDeviceConfig.py:9-20)
FullDeviceConfig(initial, optional) ==
    [ address |-> initial.address, name |-> initial.name,
      dev_type |-> initial.dev_type, use_encryption |-> initial.use_encryption,
      polling_interval |-> optional.polling_interval,
      polling_timeout |-> optional.polling_timeout,
      max_retries |-> optional.max_retries ]

\* FullDeviceConfig.from_dict (FullDeviceConfig.py:22-36)
FullFromDictNoOverride(r) ==
    LET initial == InitialFromDict(r)
    IN IF initial = << >>
       THEN << >>
       ELSE << FullDeviceConfig(initial[1], OptionalFromDict(r)) >>

FullFromDict(r) ==
    LET initial == InitialFromDict(r)
    IN IF initial = << >>
       THEN << >>
       ELSE LET overridden ==
                    IF CONF_DEVICE_TYPE \in DOMAIN r
                    THEN [initial[1] EXCEPT !.dev_type = r[CONF_DEVICE_TYPE]]
                    ELSE initial[1]
            IN << FullDeviceConfig(overridden, OptionalFromDict(r)) >>

ResolveInit ==
    /\ raw = EmptyDict
    /\ full = << >>
    /\ rstate = "idle"

\* A caller has a raw record to resolve.
Load ==
    /\ \E r \in RawRecords : raw' = r
    /\ full' = << >>
    /\ rstate' = "loaded"
    /\ UNCHANGED notResolve

\* The caller resolves it.
Resolve ==
    /\ rstate = "loaded"
    /\ full' = FullFromDict(raw)
    /\ rstate' = "resolved"
    /\ UNCHANGED << raw, notResolve >>

ResolveNext == Load \/ Resolve

(***************************************************************************)
(* The specifications                                                      *)
(***************************************************************************)

vars == << pollVars, flowVars, resolveVars >>

Init == PollInit /\ FlowInit /\ ResolveInit

SpecPoll == Init /\ [][PollNext]_vars

\* The event loop runs every task that can run: a freed lock wakes its
\* first waiter, and a read ends within polling_timeout.
PollFairness ==
    \A c \in Coords : WF_vars(LockAcquire(c)) /\ WF_vars(ReadFinish(c))

FairSpecPoll == SpecPoll /\ PollFairness

SpecFlow == Init /\ [][FlowNext]_vars

SpecOptions == Init /\ [][OptionsNext]_vars

SpecResolve == Init /\ [][ResolveNext]_vars

(***************************************************************************)
(* Claims about the polling coordinator                                    *)
(***************************************************************************)

InTick(c) == cstate[c] \in { "WaitLock", "InRead" }

Constructed(c) == cstate[c] \notin { "Absent" }

\* C1: after a tick that found the device unreachable the result is None
\* and the status stays marked stale (last_update_success = FALSE) while the
\* coordinator is scheduled for the next tick; after a tick that read the
\* device the result is the reader's output and the status is cleared.
C1_StaleUntilNextRead ==
    \A c \in Coords :
        cstate[c] = "Scheduled" =>
            /\ lastTick[c] = "unreachable" =>
                  data[c] = None /\ last_update_success[c] = FALSE
            /\ lastTick[c] \in { Telemetry, None } =>
                  data[c] = lastTick[c] /\ last_update_success[c] = TRUE

\* C2: two coordinators constructed with the same adapter lock are never
\* inside a device read at the same time, and no lock has two holders.
C2_OneReadPerAdapter ==
    /\ \A c1, c2 \in Coords :
          (c1 # c2 /\ cstate[c1] = "InRead" /\ cstate[c2] = "InRead")
             => config[c1].lock # config[c2].lock
    /\ \A l \in Locks : Cardinality(holder[l]) <= 1

\* C2 witness: both ticks were due together; one coordinator reads and the
\* other waits for the same adapter's lock.
C2_Witness ==
    \E c1, c2 \in Coords :
        /\ cstate[c1] = "InRead"
        /\ cstate[c2] = "WaitLock"
        /\ config[c1].lock = config[c2].lock

\* C3: every tick that entered a read comes back to Scheduled (or ends with
\* the removal the host asked for), whatever the read's outcome; a
\* coordinator is only ever removed on the host's request.
C3_TickReturns ==
    \A c \in Coords :
        /\ [](cstate[c] = "Removed" => shutdown[c])
        /\ InTick(c) ~> (cstate[c] \in { "Scheduled", "Removed" })

\* C3 witness: a coordinator is scheduled again after a read that raised.
C3_Witness ==
    \E c \in Coords : cstate[c] = "Scheduled" /\ lastTick[c] = "EXC"

\* C4: a lock is held only by a coordinator that is inside a read on that
\* lock; a coordinator between ticks, removed or never started holds none.
C4_LockOnlyWhileReading ==
    \A l \in Locks : \A c \in holder[l] :
        cstate[c] = "InRead" /\ reader[c].lock = l

\* C4 witness: a coordinator torn down during its read has ended the read
\* and been removed, and another coordinator now reads on the same lock.
C4_Witness ==
    \E c1, c2 \in Coords :
        /\ cstate[c1] = "Removed"
        /\ lastTick[c1] \in ReadOutcomes
        /\ cstate[c2] = "InRead"
        /\ reader[c1].lock = reader[c2].lock

\* C7: a coordinator constructed from a config whose dev_type build_device
\* does not know is not ready: it has no reader, is not scheduled, never
\* enters a tick and appears in no lock's holders or waiters.
C7_UnsupportedNeverStarts ==
    \A c \in Coords :
        (Constructed(c) /\ build_device(config[c].dev_type) = None) =>
            /\ cstate[c] = "NotReady"
            /\ reader[c] = NoReader
            /\ lastTick[c] = "none"
            /\ \A l \in Locks :
                  /\ c \notin holder[l]
                  /\ \A i \in 1 .. Len(waiters[l]) : waiters[l][i] # c

\* C7 witness: a construction with "Auto Detect" as dev_type has failed
\* while another coordinator is running.
C7_Witness ==
    \E c1, c2 \in Coords :
        /\ cstate[c1] = "NotReady"
        /\ config[c1].dev_type = AutoDetect
        /\ InTick(c2)

\* C13: a tick that finds the device unreachable does not call the reader
\* and leaves every lock's holder and waiters as they were; the coordinator
\* is scheduled again (or removed, if the host asked) in the same step and
\* no other coordinator's position changes.
C13_UnreachableLeavesLock ==
    [][ \A c \in Coords :
           (Tick(c) /\ lastTick'[c] = "unreachable") =>
              /\ holder' = holder
              /\ waiters' = waiters
              /\ cstate'[c] \in { "Scheduled", "Removed" }
              /\ \A d \in Coords \ { c } : cstate'[d] = cstate[d] ]_vars

\* C13 witness: a coordinator has had an unreachable tick while another
\* coordinator on the same adapter lock is inside its read.
C13_Witness ==
    \E c1, c2 \in Coords :
        /\ cstate[c1] = "Scheduled"
        /\ lastTick[c1] = "unreachable"
        /\ cstate[c2] = "InRead"
        /\ reader[c1].lock = reader[c2].lock
        /\ holder[reader[c2].lock] = { c2 }

(***************************************************************************)
(* Claims about the setup and options flows                                *)
(***************************************************************************)

Submitted == last.op = "submit"

Created == Submitted /\ last.result = "create_entry"

\* The record async_step_user worked from, the type its manufacturer data
\* carries, and the type the user picked.
UsedRecord == last.found[1]

MetadataType == ManufacturerDataFromDict(UsedRecord.manufacturer_data).dev_type

PickedType == Get(last.input, CONF_DEVICE_TYPE, AutoDetect)

NewEntry == entries[Len(entries)]

\* C5: an entry created from a record whose manufacturer data carries type A
\* has dev_type B when the user picked a concrete type B, and A when the user
\* picked "Auto Detect" or nothing; when the flow was started by discovery
\* and the user submits the discovered address, A is the type the recognizer
\* returned in async_step_bluetooth.
C5_ManualTypeWins ==
    (Created /\ MetadataType # None) =>
        /\ NewEntry.data[InitTypeKey] =
              IF PickedType # AutoDetect THEN PickedType ELSE MetadataType
        /\ ( /\ last.discovery_info # << >>
             /\ last.discovery_info[1].address = last.input.address )
              => MetadataType = Recognized(last.input.address).name

\* C5 witness: in a flow started by discovery, the user overrides the
\* recognized type with "EB3A" and the entry is created.
C5_Witness ==
    /\ Created
    /\ MetadataType # None
    /\ PickedType = "EB3A"
    /\ last.discovery_info # << >>

\* C6: a setup whose input carries no recognizable device type (no type in
\* the record's manufacturer data, none picked by the user; the recognizer
\* answering None) ends in the "Device type not supported" abort, and no
\* entry without a device type exists.
C6_UnsupportedAborts ==
    /\ \A i \in 1 .. Len(entries) : entries[i].data[InitTypeKey] # None
    /\ ( /\ Submitted
         /\ last.found # << >>
         /\ last.reason # "already_configured" ) =>
          ( (MetadataType = None /\ PickedType = AutoDetect) =>
               /\ last.result = "abort"
               /\ last.reason = "Device type not supported" )

\* C10: no two config entries have the same address, and a submission that
\* ended as a duplicate found the entry of that address in the store.
C10_OneEntryPerAddress ==
    /\ \A i, j \in 1 .. Len(entries) :
          i # j => /\ entries[i].unique_id # entries[j].unique_id
                   /\ entries[i].data.address # entries[j].data.address
    /\ (Submitted /\ last.reason = "already_configured") =>
          /\ last.result = "abort"
          /\ \E i \in 1 .. Len(entries) : entries[i].unique_id = last.input.address

\* C10 witness: a form was submitted for an address that is configured.
C10_Witness ==
    /\ Submitted
    /\ last.reason = "already_configured"
    /\ Len(entries) = 2

\* A scan step (async_step_user without input) has just run.
Scanned ==
    /\ last.op \in { "user", "bluetooth" }
    /\ last.reason \notin { "already_configured", "Device type not supported" }

\* C11: a form submitted for an address that is not in the discovery feed
\* at that moment aborts with device_not_found and creates no entry; a scan
\* that finds no likely device aborts with no_devices_found and shows no
\* form.
C11_VanishedAborts ==
    /\ (Submitted /\ last.input.address \notin DOMAIN feed) =>
          /\ last.result = "abort"
          /\ last.reason = "device_not_found"
          /\ entries = last.before
    /\ (Scanned /\ ScanChoices(feed) = { }) =>
          /\ last.result = "abort"
          /\ last.reason = "no_devices_found"

\* C11, amended: in a flow that remembers no record from
\* async_step_bluetooth, a form submitted for an address that is not in the
\* discovery feed at that moment aborts with device_not_found and creates
\* no entry; a scan that finds no likely device aborts with
\* no_devices_found and shows no form.
C11_VanishedAbortsUnlessRemembered ==
    /\ ( /\ Submitted
         /\ last.input.address \notin DOMAIN feed
         /\ last.discovery_info = << >> ) =>
          /\ last.result = "abort"
          /\ last.reason = "device_not_found"
          /\ entries = last.before
    /\ (Scanned /\ ScanChoices(feed) = { }) =>
          /\ last.result = "abort"
          /\ last.reason = "no_devices_found"

\* C11 witness: the device picked in a user-started flow had left the feed
\* when the form was submitted, while another device was still in it.
C11_Witness ==
    /\ Submitted
    /\ last.discovery_info = << >>
    /\ last.input.address \notin DOMAIN feed
    /\ feed # << >>

\* The example name, as device A2 advertises it.
ExampleName == AdvName("A2")

\* C12 as the specification words it: an entry created from a record named
\* "Bluetti-AC200M_01" is named "BLUETTIAC200M01".
C12_ExampleAsSpecified ==
    (Created /\ UsedRecord.name = ExampleName) =>
        NewEntry.data.name =
            << "B", "L", "U", "E", "T", "T", "I",
               "A", "C", "2", "0", "0", "M", "0", "1" >>

\* C12, amended: an entry created from a record named "Bluetti-AC200M_01"
\* is named "BAC200M01": every character outside A-Z and 0-9 is dropped,
\* the lower-case letters included.
C12_ExampleSanitized ==
    (Created /\ UsedRecord.name = ExampleName) =>
        NewEntry.data.name = << "B", "A", "C", "2", "0", "0", "M", "0", "1" >>

\* C12 witness: an entry was created from a record carrying the example
\* name.
C12_Witness ==
    /\ Created
    /\ UsedRecord.name = ExampleName
    /\ NewEntry.unique_id = "A2"

\* C16: an entry created for address X was made from a discovery record
\* whose address is X: its name, type and encryption flag are that record's.
C16_EntryFromOwnRecord ==
    Created =>
        /\ UsedRecord.address = last.input.address
        /\ NewEntry.data.address = last.input.address
        /\ NewEntry.data.name = Sanitize(UsedRecord.name)
        /\ NewEntry.data.use_encryption =
              ManufacturerDataFromDict(UsedRecord.manufacturer_data).use_encryption

OptionsSubmitted == last.op = "options_submit"

\* C8: an options submission whose settings fail validation aborts with the
\* reason validation returned and leaves every entry's data and options as
\* they were.
C8_InvalidOptionsChangeNothing ==
    ( /\ OptionsSubmitted
      /\ Validate(OptionalFromDict(last.input)) # None ) =>
        /\ last.result = "abort"
        /\ last.reason = Validate(OptionalFromDict(last.input))
        /\ entries = last.before

\* C8 witness: an invalid submission was refused on an entry that an earlier
\* edit had changed.
C8_Witness ==
    /\ OptionsSubmitted
    /\ last.result = "abort"
    /\ last.reason = "invalid_polling_timeout"
    /\ entries[last.entry].options # EmptyDict

ConcreteTypes == DEVICE_OPTIONS \ { AutoDetect }

\* The three optional settings.
SettingKeys == DOMAIN OptionalDefaults

\* C14: the options form pre-selects the device type of the options record
\* if it holds one, else the device type the setup stored in the entry's
\* data, else "Auto Detect"; after a setup that resolved type T and before
\* any edit it pre-selects T.
C14_FormPreselectsStoredType ==
    (last.op = "options" /\ last.result = "form") =>
        LET entry == entries[optflow.entry]
        IN last.current_type =
              IF CONF_DEVICE_TYPE \in DOMAIN entry.options
              THEN entry.options[CONF_DEVICE_TYPE]
              ELSE IF entry.data[InitTypeKey] # None
              THEN entry.data[InitTypeKey]
              ELSE AutoDetect

\* C15: for every entry whose setup resolved a concrete device type, the
\* configuration resolved from the stored record (data with options laid
\* over) has a concrete device type, never "Auto Detect" or none, and the
\* coordinator's construction from it does not fail as unsupported.
C15_StoredTypeStaysConcrete ==
    \A i \in 1 .. Len(entries) :
        entries[i].data[InitTypeKey] \in ConcreteTypes =>
            LET resolved == FullFromDict(StoredRecord(entries[i]))
            IN /\ resolved # << >>
               /\ resolved[1].dev_type \in ConcreteTypes
               /\ ~CoordinatorInit(1, [dev_type |-> resolved[1].dev_type,
                                       lock |-> 1]).raised

\* C17: a successful options edit writes the three settings into the
\* entry's data and leaves every other key of the data (address, name,
\* use_encryption, the setup-time type) as it was; the edited device type
\* goes to the options record only, and no other entry changes.
C17_EditKeepsIdentity ==
    (OptionsSubmitted /\ last.result = "create_entry") =>
        LET old == last.before[last.entry]
            new == entries[last.entry]
            cfg == OptionalFromDict(last.input)
        IN /\ DOMAIN new.data = DOMAIN old.data
           /\ \A k \in DOMAIN old.data \ SettingKeys : new.data[k] = old.data[k]
           /\ \A k \in SettingKeys : new.data[k] = cfg[k]
           /\ new.unique_id = old.unique_id
           /\ new.options = (CONF_DEVICE_TYPE :> last.input[CONF_DEVICE_TYPE]) @@ cfg
           /\ \A j \in 1 .. Len(entries) :
                 j # last.entry => entries[j] = last.before[j]
           /\ Len(entries) = Len(last.before)

\* C17 witness: an edit that picked "EB3A" succeeded on an entry set up as
\* another type, next to a second entry.
C17_Witness ==
    /\ OptionsSubmitted
    /\ last.result = "create_entry"
    /\ last.input[CONF_DEVICE_TYPE] = "EB3A"
    /\ entries[last.entry].data[InitTypeKey] \in ConcreteTypes \ { "EB3A" }
    /\ Len(entries) = 2

(***************************************************************************)
(* Claims about FullDeviceConfig.from_dict                                 *)
(***************************************************************************)

\* C9: the resolved dev_type is the value under the device-type key when the
\* raw record has that key, the initial configuration's type when it has
\* not, and there is no FullDeviceConfig when no initial configuration can
\* be built.
C9_DeviceTypePrecedence ==
    rstate = "resolved" =>
        LET initial == InitialFromDict(raw)
        IN IF initial = << >>
           THEN full = << >>
           ELSE /\ full # << >>
                /\ full[1].dev_type =
                      IF CONF_DEVICE_TYPE \in DOMAIN raw
                      THEN raw[CONF_DEVICE_TYPE]
                      ELSE initial[1].dev_type

\* C9 witness: a record with both a setup-time type and a different value
\* under the device-type key has been resolved.
C9_Witness ==
    /\ rstate = "resolved"
    /\ full # << >>
    /\ CONF_DEVICE_TYPE \in DOMAIN raw
    /\ raw[CONF_DEVICE_TYPE] # raw[InitTypeKey]

====
